---- MODULE Spec2Model ----
(***************************************************************************)
(* AutoYoutubeASR: the channel crawlers (ytCrawler_claude.py,              *)
(* ytCrawler_grok.py, ytCrawler_deepseek.py), the playlist downloader      *)
(* (down_load_ytvoice.py) and its URL parsing, and the batch transcriber   *)
(* with its background mode (test_whisper_large.py).                       *)
(*                                                                         *)
(* The external collaborators (yt-dlp, the YouTube listing API, Whisper,   *)
(* the OpenAI API, pytubefix) are nondeterministic: each call either       *)
(* succeeds or raises, chosen with \E in the action that makes the call.   *)
(***************************************************************************)
EXTENDS Integers, Sequences, FiniteSets, TLC

(***************************************************************************)
(* Bounds of the model.                                                    *)
(***************************************************************************)
\* number of videos the channel may hold
MaxVideos == 2
\* items per listing page (the scripts ask for maxResults=50)
MaxResults == 1
\* tokens in the path of a URL
MaxPathLen == 4
\* fields in the query of a URL
MaxQueryLen == 2
\* entries of a playlist
MaxPlaylist == 3
\* largest --limit tried
MaxLimit == 2
\* audio files the voices directory may hold
MaxFiles == 2

VARIABLES
    \* ---- channel crawlers (ytCrawler_*.py) ----
    variant,        \* which script runs: "claude", "grok" or "deepseek"
    youtubeKey,     \* YOUTUBE_API_KEY is set in the environment
    openaiKey,      \* OPENAI_API_KEY is set in the environment
    nVideos,        \* number of videos of the channel (ids 1..nVideos)
    run,            \* 1: first run, 2: re-run over the files the first left
    pc,             \* position of main()
    crashStage,     \* the call whose exception left main(), or "none"
    page,           \* get_all_video_ids: page being requested
    collected,      \* get_all_video_ids: its local list video_ids
    listFailed,     \* a listing call of this run raised
    video_ids,      \* main: the list get_all_video_ids returned
    idx,            \* main: position in video_ids (1-based)
    audio,          \* filesystem: size of OUTPUT_DIR/<id>.mp3, or Absent
    transcripts,    \* filesystem: the <<id, backend>> transcript files
    \* ---- what this run has invoked (history) ----
    channelLookups, \* calls of get_channel_id
    listCalls,      \* listing requests executed
    attempted,      \* ids extract_audio was called for
    dlCalled,       \* ids the downloader was invoked for
    acqFailed,      \* ids whose download raised
    whisperCalled,  \* ids transcribe_with_whisper was called for
    openaiCalled,   \* ids transcribe_with_openai was called for
    apiCalls,       \* id -> calls of the remote transcription API
    wres,           \* id -> result of transcribe_with_whisper
    ores,           \* id -> result of transcribe_with_openai
    osize,          \* id -> size of the audio file transcribe_with_openai was given
    removed,        \* ids whose audio file this run removed
    seeded,         \* run 2: ids whose two transcripts existed at its start
    \* ---- down_load_ytvoice.py ----
    mode,           \* "video": download_youtube_voice, "playlist": download_playlist
    url,            \* the URL given to download_youtube_voice
    playlist,       \* playlist.video_urls
    limit,          \* --limit
    dpc,            \* position of the downloader
    index,          \* download_playlist: entry being visited (1-based)
    video_id,       \* the result of the last get_video_id call
    successful_downloads,
    calls,          \* entries download_audio was invoked for (0: the single video)
    failures,       \* entries whose download_audio returned None
    skipped,        \* entries passed over because no identifier was parsed
    \* ---- test_whisper_large.py ----
    args,           \* the parsed command line of the process that is running
    wpc,            \* position of that process
    level,          \* how many processes were spawned before it (0: the user's)
    cmds,           \* the commands run_in_background has built, oldest first
    loaded,         \* levels that called whisper.load_model
    worked,         \* levels that called process_audio_file
    files,          \* filesystem: the audio files under voices
    audio_files,    \* the list the running branch of main iterates over
    fileIndex,      \* position in audio_files (1-based)
    successful,     \* process_all_audio_files: its counter
    outcome,        \* file -> what process_audio_file did for it
    wtranscripts,   \* filesystem: files whose transcript was written
    removeFailed,   \* files whose os.remove raised
    summary         \* the closing log line of process_all_audio_files

fsVars   == <<audio, transcripts>>
envVars  == <<variant, youtubeKey, openaiKey, nVideos>>
listVars == <<page, collected, listFailed, video_ids, listCalls>>
histVars == <<channelLookups, attempted, dlCalled, acqFailed, whisperCalled,
              openaiCalled, apiCalls, wres, ores, osize, removed>>
crawlerVars == <<envVars, run, pc, crashStage, listVars, idx, fsVars, histVars, seeded>>
dlVars   == <<mode, url, playlist, limit, dpc, index, video_id,
              successful_downloads, calls, failures, skipped>>
whVars   == <<args, wpc, level, cmds, loaded, worked, files, audio_files,
              fileIndex, successful, outcome, wtranscripts, removeFailed, summary>>
vars     == <<crawlerVars, dlVars, whVars>>

Variants == {"claude", "grok", "deepseek"}
Ids      == 1..MaxVideos
Absent   == -1

\* transcribe_with_openai: 25 * 1024 * 1024
SizeLimit == 25 * 1024 * 1024
\* sizes a downloaded audio file may have: at the limit and one byte above
Sizes == {SizeLimit, SizeLimit + 1}

(***************************************************************************)
(* The listing collaborator: search().list(..., maxResults, pageToken).    *)
(***************************************************************************)
RECURSIVE Range(_, _)
Range(a, b) == IF a > b THEN <<>> ELSE <<a>> \o Range(a + 1, b)

Min(a, b) == IF a < b THEN a ELSE b

\* response.get("items", []) of page p of a channel of n videos
PageItems(p, n) == Range((p - 1) * MaxResults + 1, Min(p * MaxResults, n))

\* response.get("nextPageToken") is present
HasNextPage(p, n) == p * MaxResults < n

(***************************************************************************)
(* Where each script catches what.                                         *)
(***************************************************************************)
\* main of ytCrawler_deepseek.py loads the Whisper model once, up front
LoadsModelFirst(v) == v = "deepseek"

\* get_channel_id failing ends main with a return instead of an exception:
\* grok catches inside get_channel_id and main returns on None, deepseek
\* catches in main
ChannelFailureReturns(v) == v \in {"grok", "deepseek"}

\* get_all_video_ids when a listing call raises: it raises too, or returns ids
ListFailureResult(v, ids) ==
    CASE v = "deepseek" -> [raises |-> FALSE, ids |-> ids]   \* except in the loop: break
      [] v = "grok"     -> [raises |-> FALSE, ids |-> <<>>]  \* except around it: return []
      [] OTHER          -> [raises |-> TRUE, ids |-> <<>>]   \* claude: no try

\* extract_audio catches the downloader's exception and returns None
ExtractCatches(v) == v \in {"grok", "deepseek"}

\* main's test after extract_audio: skip the item (continue)
MainSkipsItem(v, hasPath, fileExists) ==
    CASE v = "deepseek" -> ~hasPath \/ ~fileExists
      [] v = "grok"     -> ~hasPath
      [] OTHER          -> FALSE

\* transcribe_with_whisper has its own try/except returning None
WhisperCatches(v) == v \in {"grok", "deepseek"}

\* transcribe_with_openai: the try covers this stage of the function
\* ("client": OpenAI(...), "getsize": os.path.getsize, "api": the request)
OpenaiCatches(v, stage) ==
    CASE v = "deepseek" -> TRUE
      [] v = "grok"     -> stage = "api"
      [] OTHER          -> FALSE

\* main wraps each transcription call in try/except
MainCatchesTranscription(v) == v = "claude"

\* OpenAI(api_key=OPENAI_API_KEY) raises when no key is configured
ClientConstructs(key) == key

\* if file_size > 25 * 1024 * 1024: return None
ExceedsLimit(size) == size > SizeLimit

\* main removes the audio file after the transcriptions (deepseek only)
CleansUp(v) == v = "deepseek"

\* the downloader is always invoked: extract_audio without its early return
AudioNeverFound(size) == FALSE

\* extract_audio: if os.path.exists(audio_path), for a file of this size
AudioExists(size) == size # Absent

(***************************************************************************)
(* Initial state: the moment main() is entered, module-level code done.    *)
(***************************************************************************)
FirstPc(v) == IF LoadsModelFirst(v) THEN "load_model" ELSE "get_channel_id"

NoHistory ==
    /\ channelLookups = 0
    /\ attempted = {}
    /\ dlCalled = {}
    /\ acqFailed = {}
    /\ whisperCalled = {}
    /\ openaiCalled = {}
    /\ apiCalls = [i \in Ids |-> 0]
    /\ wres = [i \in Ids |-> "none"]
    /\ ores = [i \in Ids |-> "none"]
    /\ osize = [i \in Ids |-> Absent]
    /\ removed = {}

CrawlerFresh ==
    /\ crashStage = "none"
    /\ page = 1
    /\ collected = <<>>
    /\ listFailed = FALSE
    /\ video_ids = <<>>
    /\ listCalls = 0
    /\ idx = 1
    /\ audio = [i \in Ids |-> Absent]
    /\ transcripts = {}
    /\ NoHistory
    /\ seeded = {}

\* a crawler script is started
CrawlerStart ==
    /\ variant \in Variants
    /\ youtubeKey \in BOOLEAN
    /\ openaiKey \in BOOLEAN
    /\ nVideos \in 0..MaxVideos
    /\ run = 1
    /\ pc = FirstPc(variant)
    /\ CrawlerFresh

\* no crawler script runs
CrawlerIdle ==
    /\ variant = "grok"
    /\ youtubeKey = TRUE
    /\ openaiKey = TRUE
    /\ nVideos = 0
    /\ run = 1
    /\ pc = "idle"
    /\ CrawlerFresh

\* down_load_ytvoice.py does not run
DownloaderIdle ==
    /\ mode = "none"
    /\ url = [netloc |-> "", path |-> <<>>, query |-> <<>>]
    /\ playlist = <<>>
    /\ limit = 0
    /\ dpc = "idle"
    /\ index = 1
    /\ video_id = [kind |-> "None", val |-> <<>>]
    /\ successful_downloads = 0
    /\ calls = {}
    /\ failures = {}
    /\ skipped = {}

\* the audio files that may lie under voices
Files == 1..MaxFiles

\* argparse's result for an empty command line
NoArgs == [input |-> "", all |-> FALSE, keep |-> FALSE, background |-> FALSE,
           log |-> ""]

\* nothing logged by process_all_audio_files yet
NoSummary == [logged |-> FALSE, successful |-> 0, total |-> 0]

\* test_whisper_large.py has not been started, or has just been
WhisperFresh ==
    /\ level = 0
    /\ cmds = <<>>
    /\ loaded = {}
    /\ worked = {}
    /\ audio_files = <<>>
    /\ fileIndex = 1
    /\ successful = 0
    /\ outcome = [f \in Files |-> "none"]
    /\ wtranscripts = {}
    /\ removeFailed = {}
    /\ summary = NoSummary

\* test_whisper_large.py does not run
WhisperIdle ==
    /\ args = NoArgs
    /\ wpc = "idle"
    /\ files = {}
    /\ WhisperFresh

Init == CrawlerStart /\ DownloaderIdle /\ WhisperIdle
\* the loop head: the next item, or the end of main
LoopPc(i, ids) == IF i <= Len(ids) THEN "extract_audio" ELSE "done"

(***************************************************************************)
(* main, step by step.                                                     *)
(***************************************************************************)
\* deepseek main: whisper.load_model("large")
LoadModel ==
    /\ pc = "load_model"
    /\ \E ok \in BOOLEAN :
        IF ok THEN pc' = "get_channel_id" /\ UNCHANGED crashStage
        ELSE pc' = "crashed" /\ crashStage' = "load_model"
    /\ UNCHANGED <<whVars, dlVars, envVars, run, listVars, idx, fsVars, histVars, seeded>>

\* channel_id = get_channel_id(CHANNEL_URL)
GetChannelId ==
    /\ pc = "get_channel_id"
    /\ channelLookups' = channelLookups + 1
    /\ \E ok \in BOOLEAN :
        IF ok THEN pc' = "get_all_video_ids" /\ UNCHANGED crashStage
        ELSE IF ChannelFailureReturns(variant)
             THEN pc' = "returned" /\ UNCHANGED crashStage
             ELSE pc' = "crashed" /\ crashStage' = "get_channel_id"
    /\ UNCHANGED <<whVars, dlVars, envVars, run, listVars, idx, fsVars, seeded,
                   attempted, dlCalled, acqFailed, whisperCalled, openaiCalled,
                   apiCalls, wres, ores, osize, removed>>

\* get_all_video_ids: one request.execute() and what follows it
ListPage ==
    /\ pc = "get_all_video_ids"
    /\ listCalls' = listCalls + 1
    /\ \E ok \in (IF youtubeKey THEN BOOLEAN ELSE {FALSE}) :
        IF ok
        THEN /\ collected' = collected \o PageItems(page, nVideos)
             /\ UNCHANGED <<listFailed, crashStage>>
             /\ IF HasNextPage(page, nVideos)
                THEN /\ page' = page + 1
                     /\ UNCHANGED <<pc, video_ids>>
                ELSE /\ video_ids' = collected'
                     /\ pc' = LoopPc(1, video_ids')
                     /\ UNCHANGED page
        ELSE /\ listFailed' = TRUE
             /\ UNCHANGED <<collected, page>>
             /\ IF ListFailureResult(variant, collected).raises
                THEN /\ pc' = "crashed"
                     /\ crashStage' = "get_all_video_ids"
                     /\ UNCHANGED video_ids
                ELSE /\ video_ids' = ListFailureResult(variant, collected).ids
                     /\ pc' = LoopPc(1, video_ids')
                     /\ UNCHANGED crashStage
    /\ UNCHANGED <<whVars, dlVars, envVars, run, idx, fsVars, histVars, seeded>>

\* audio_path = extract_audio(video_id), and main's test of the result
ExtractAudio ==
    /\ pc = "extract_audio"
    /\ LET id == video_ids[idx] IN
        /\ attempted' = attempted \cup {id}
        /\ IF AudioExists(audio[id])
           THEN \* return audio_path
                /\ pc' = "transcribe_with_whisper"
                /\ UNCHANGED <<audio, dlCalled, acqFailed, crashStage, idx>>
           ELSE /\ dlCalled' = dlCalled \cup {id}
                /\ \E out \in {"raise", "nofile", "ok"}, size \in Sizes :
                    CASE out = "raise" ->
                           /\ acqFailed' = acqFailed \cup {id}
                           /\ UNCHANGED audio
                           /\ IF ~ExtractCatches(variant)
                              THEN /\ pc' = "crashed"
                                   /\ crashStage' = "extract_audio"
                                   /\ UNCHANGED idx
                              ELSE /\ UNCHANGED crashStage
                                   /\ IF MainSkipsItem(variant, FALSE, FALSE)
                                      THEN idx' = idx + 1 /\ pc' = LoopPc(idx + 1, video_ids)
                                      ELSE pc' = "transcribe_with_whisper" /\ UNCHANGED idx
                      [] out = "nofile" ->
                           \* the downloader returned without leaving <id>.mp3
                           /\ UNCHANGED <<audio, acqFailed, crashStage>>
                           /\ IF MainSkipsItem(variant, TRUE, FALSE)
                              THEN idx' = idx + 1 /\ pc' = LoopPc(idx + 1, video_ids)
                              ELSE pc' = "transcribe_with_whisper" /\ UNCHANGED idx
                      [] OTHER ->
                           /\ audio' = [audio EXCEPT ![id] = size]
                           /\ UNCHANGED <<acqFailed, crashStage>>
                           /\ IF MainSkipsItem(variant, TRUE, TRUE)
                              THEN idx' = idx + 1 /\ pc' = LoopPc(idx + 1, video_ids)
                              ELSE pc' = "transcribe_with_whisper" /\ UNCHANGED idx
    /\ UNCHANGED <<whVars, dlVars, envVars, run, listVars, transcripts, seeded, channelLookups,
                   whisperCalled, openaiCalled, apiCalls, wres, ores, osize, removed>>

\* whisper_transcript = transcribe_with_whisper(..., audio_path, video_id)
TranscribeWhisper ==
    /\ pc = "transcribe_with_whisper"
    /\ LET id == video_ids[idx] IN
        /\ whisperCalled' = whisperCalled \cup {id}
        \* model.transcribe raises on a missing file
        /\ \E ok \in (IF audio[id] = Absent THEN {FALSE} ELSE BOOLEAN) :
            IF ok
            THEN /\ transcripts' = transcripts \cup {<<id, "whisper">>}
                 /\ wres' = [wres EXCEPT ![id] = "path"]
                 /\ pc' = "transcribe_with_openai"
                 /\ UNCHANGED crashStage
            ELSE /\ UNCHANGED transcripts
                 /\ IF WhisperCatches(variant)
                    THEN /\ wres' = [wres EXCEPT ![id] = "None"]
                         /\ pc' = "transcribe_with_openai"
                         /\ UNCHANGED crashStage
                    ELSE IF MainCatchesTranscription(variant)
                    THEN /\ wres' = [wres EXCEPT ![id] = "raise"]
                         /\ pc' = "transcribe_with_openai"
                         /\ UNCHANGED crashStage
                    ELSE /\ wres' = [wres EXCEPT ![id] = "raise"]
                         /\ pc' = "crashed"
                         /\ crashStage' = "transcribe_with_whisper"
    /\ UNCHANGED <<whVars, dlVars, envVars, run, listVars, idx, audio, seeded, channelLookups,
                   attempted, dlCalled, acqFailed, openaiCalled, apiCalls, ores,
                   osize, removed>>

\* where main goes after transcribe_with_openai
AfterOpenai(v) == IF CleansUp(v) THEN "cleanup" ELSE "sleep"

\* transcribe_with_openai raised at `stage`: the function's except returns
\* None, or main's except swallows it, or it leaves main
OpenaiRaises(id, stage) ==
    IF OpenaiCatches(variant, stage)
    THEN /\ ores' = [ores EXCEPT ![id] = "None"]
         /\ pc' = AfterOpenai(variant)
         /\ UNCHANGED crashStage
    ELSE IF MainCatchesTranscription(variant)
    THEN /\ ores' = [ores EXCEPT ![id] = "raise"]
         /\ pc' = AfterOpenai(variant)
         /\ UNCHANGED crashStage
    ELSE /\ ores' = [ores EXCEPT ![id] = "raise"]
         /\ pc' = "crashed"
         /\ crashStage' = "transcribe_with_openai"

\* openai_transcript = transcribe_with_openai(audio_path, video_id)
TranscribeOpenAI ==
    /\ pc = "transcribe_with_openai"
    /\ LET id == video_ids[idx] IN
        /\ openaiCalled' = openaiCalled \cup {id}
        /\ osize' = [osize EXCEPT ![id] = audio[id]]
        /\ IF ~ClientConstructs(openaiKey)
           THEN /\ OpenaiRaises(id, "client")
                /\ UNCHANGED <<transcripts, apiCalls>>
           ELSE IF audio[id] = Absent
           THEN \* os.path.getsize raises FileNotFoundError
                /\ OpenaiRaises(id, "getsize")
                /\ UNCHANGED <<transcripts, apiCalls>>
           ELSE /\ IF ExceedsLimit(audio[id])
                   THEN /\ ores' = [ores EXCEPT ![id] = "None"]
                        /\ pc' = AfterOpenai(variant)
                        /\ UNCHANGED <<transcripts, apiCalls, crashStage>>
                   ELSE /\ apiCalls' = [apiCalls EXCEPT ![id] = @ + 1]
                        /\ \E ok \in BOOLEAN :
                            IF ok
                            THEN /\ transcripts' = transcripts \cup {<<id, "openai">>}
                                 /\ ores' = [ores EXCEPT ![id] = "path"]
                                 /\ pc' = AfterOpenai(variant)
                                 /\ UNCHANGED crashStage
                            ELSE /\ OpenaiRaises(id, "api")
                                 /\ UNCHANGED transcripts
    /\ UNCHANGED <<whVars, dlVars, envVars, run, listVars, idx, audio, seeded, channelLookups,
                   attempted, dlCalled, acqFailed, whisperCalled, wres, removed>>

\* a failing os.remove leaves the loop: the deletion without its try
CatchesNoRemoveFailure(script) == FALSE

\* os.remove(audio_path) sits in a try whose except does not re-raise:
\* `except: pass` in deepseek's main, `except Exception` with a log line in
\* process_audio_file of test_whisper_large.py
CatchesRemoveFailure(script) == script \in {"deepseek", "test_whisper_large"}

\* deepseek main: try: os.remove(audio_path) except: pass
Cleanup ==
    /\ pc = "cleanup"
    /\ LET id == video_ids[idx] IN
        \E ok \in (IF audio[id] = Absent THEN {FALSE} ELSE BOOLEAN) :
            IF ok
            THEN /\ audio' = [audio EXCEPT ![id] = Absent]
                 /\ removed' = removed \cup {id}
                 /\ pc' = "sleep"
                 /\ UNCHANGED crashStage
            ELSE /\ UNCHANGED <<audio, removed>>
                 /\ IF CatchesRemoveFailure(variant)
                    THEN pc' = "sleep" /\ UNCHANGED crashStage
                    ELSE pc' = "crashed" /\ crashStage' = "cleanup"
    /\ UNCHANGED <<whVars, dlVars, envVars, run, listVars, idx, transcripts, seeded,
                   channelLookups, attempted, dlCalled, acqFailed, whisperCalled,
                   openaiCalled, apiCalls, wres, ores, osize>>

\* time.sleep(...) at the end of the loop body, then the next item
Sleep ==
    /\ pc = "sleep"
    /\ idx' = idx + 1
    /\ pc' = LoopPc(idx + 1, video_ids)
    /\ UNCHANGED <<whVars, dlVars, envVars, run, crashStage, listVars, fsVars, histVars, seeded>>

\* the script is started again over the files a completed first run left
SecondRun ==
    /\ pc = "done"
    /\ run = 1
    /\ run' = 2
    /\ pc' = FirstPc(variant)
    /\ page' = 1
    /\ collected' = <<>>
    /\ listFailed' = FALSE
    /\ video_ids' = <<>>
    /\ listCalls' = 0
    /\ idx' = 1
    /\ channelLookups' = 0
    /\ attempted' = {}
    /\ dlCalled' = {}
    /\ acqFailed' = {}
    /\ whisperCalled' = {}
    /\ openaiCalled' = {}
    /\ apiCalls' = [i \in Ids |-> 0]
    /\ wres' = [i \in Ids |-> "none"]
    /\ ores' = [i \in Ids |-> "none"]
    /\ osize' = [i \in Ids |-> Absent]
    /\ removed' = {}
    /\ seeded' = {i \in Ids : <<i, "whisper">> \in transcripts
                              /\ <<i, "openai">> \in transcripts}
    /\ UNCHANGED <<whVars, dlVars, envVars, crashStage, fsVars>>

Next ==
    \/ LoadModel
    \/ GetChannelId
    \/ ListPage
    \/ ExtractAudio
    \/ TranscribeWhisper
    \/ TranscribeOpenAI
    \/ Cleanup
    \/ Sleep
    \/ SecondRun

Spec == Init /\ [][Next]_vars

(***************************************************************************)
(* down_load_ytvoice.py: URLs.                                             *)
(*                                                                         *)
(* A URL is its network location, its path and its query, each a piece of  *)
(* text: the path a sequence of tokens ("/" and words), the query a        *)
(* sequence of <<key, value>> fields, a value being a string of at most    *)
(* one token (<<>>: blank, as in "v=").  A string is a sequence of tokens. *)
(***************************************************************************)
NetLocs == {"youtu.be", "www.youtube.com", "youtube.com", "WWW.YOUTUBE.COM",
            "m.youtube.com", "", "[youtu.be"}
PathTokens == {"/", "watch", "embed", "v", "abc"}
QueryKeys == {"v", "t"}
QueryValues == {<<>>, <<"abc">>}

SeqsUpTo(S, n) == UNION {[1..k -> S] : k \in 0..n}

\* after a network location a path is empty or starts with "/"
Paths == {p \in SeqsUpTo(PathTokens, MaxPathLen) : p = <<>> \/ p[1] = "/"}
Queries == SeqsUpTo(QueryKeys \X QueryValues, MaxQueryLen)
Urls == [netloc : NetLocs, path : Paths, query : Queries]

\* urlsplit: a "[" without its "]" in the network location is an error
InvalidIPv6(netloc) == netloc = "[youtu.be"

\* ParseResult.hostname: the network location in lower case ("": None)
hostname(netloc) == IF netloc = "WWW.YOUTUBE.COM" THEN "www.youtube.com" ELSE netloc

\* urlparse(url): raises ValueError, or the parsed pieces
urlparse(u) ==
    IF InvalidIPv6(u.netloc)
    THEN [error |-> TRUE, hostname |-> "", path |-> <<>>, query |-> <<>>]
    ELSE [error |-> FALSE, hostname |-> hostname(u.netloc),
          path |-> u.path, query |-> u.query]

\* parse_qs(query)[key]: the non-blank values of the key's fields, in order
\* (blank values are dropped: keep_blank_values is off)
RECURSIVE parse_qs(_, _)
parse_qs(query, key) ==
    IF query = <<>> THEN <<>>
    ELSE LET f == Head(query) IN
         (IF f[1] = key /\ f[2] # <<>> THEN <<f[2]>> ELSE <<>>)
             \o parse_qs(Tail(query), key)

\* path.split("/"): the strings between the "/" tokens
RECURSIVE split(_)
split(p) ==
    IF p = <<>> THEN << <<>> >>
    ELSE LET rest == split(Tail(p)) IN
         IF Head(p) = "/" THEN << <<>> >> \o rest
         ELSE << <<Head(p)>> \o Head(rest) >> \o Tail(rest)

\* path.startswith(prefix)
startswith(p, prefix) ==
    Len(p) >= Len(prefix) /\ SubSeq(p, 1, Len(prefix)) = prefix

Str(s) == [kind |-> "str", val |-> s]
None == [kind |-> "None", val |-> <<>>]
ValueError == [kind |-> "ValueError", val |-> <<>>]

\* get_video_id(url): a string, None, or the ValueError urlparse raised
get_video_id(u) ==
    LET parsed_url == urlparse(u) IN
    IF parsed_url.error THEN ValueError
    ELSE IF parsed_url.hostname \in {"youtu.be"}
    THEN Str(IF parsed_url.path = <<>> THEN <<>> ELSE Tail(parsed_url.path))
    ELSE IF parsed_url.hostname \in {"www.youtube.com", "youtube.com"}
    THEN IF parsed_url.path = <<"/", "watch">>
         THEN LET v == parse_qs(parsed_url.query, "v") IN
              IF v = <<>> THEN None ELSE Str(v[1])
         ELSE IF startswith(parsed_url.path, <<"/", "embed", "/">>)
         THEN Str(split(parsed_url.path)[3])
         ELSE IF startswith(parsed_url.path, <<"/", "v", "/">>)
         THEN Str(split(parsed_url.path)[3])
         ELSE None
    ELSE None

\* NoVideoId testing `video_id is None` instead: an empty string passes
NoVideoIdIsNone(r) == r.kind = "None"

\* `if not video_id`: None and the empty string are both false
NoVideoId(r) == r.kind = "None" \/ (r.kind = "str" /\ r.val = <<>>)

\* LimitReached comparing with > instead of >=
LimitReachedOffByOne(lim, done) == lim > 0 /\ done > lim

\* `if limit > 0 and successful_downloads >= limit: break`
LimitReached(lim, done) == lim > 0 /\ done >= lim

(***************************************************************************)
(* down_load_ytvoice.py: the two entry points.                             *)
(***************************************************************************)
\* the entries pytubefix lists for a playlist: watch URLs, some of them of a
\* shape get_video_id finds no identifier in
PlaylistUrls ==
    { [netloc |-> "www.youtube.com", path |-> <<"/", "watch">>,
       query |-> << <<"v", <<"abc">> >> >>],
      [netloc |-> "www.youtube.com", path |-> <<"/", "watch">>,
       query |-> << <<"v", <<>> >> >>],
      [netloc |-> "youtu.be", path |-> <<"/">>, query |-> <<>>],
      [netloc |-> "m.youtube.com", path |-> <<"/", "watch">>,
       query |-> << <<"v", <<"abc">> >> >>] }

InitDownload ==
    /\ CrawlerIdle
    /\ WhisperIdle
    /\ mode \in {"video", "playlist"}
    /\ IF mode = "video"
       THEN /\ url \in Urls
            /\ playlist = <<>>
            /\ limit = 0
            /\ dpc = "download_youtube_voice"
       ELSE /\ url = [netloc |-> "", path |-> <<>>, query |-> <<>>]
            /\ playlist \in SeqsUpTo(PlaylistUrls, MaxPlaylist)
            /\ limit \in 0..MaxLimit
            /\ dpc = "download_playlist"
    /\ index = 1
    /\ video_id = None
    /\ successful_downloads = 0
    /\ calls = {}
    /\ failures = {}
    /\ skipped = {}

\* download_youtube_voice(url): get_video_id and the test of its result
ParseVideoUrl ==
    /\ dpc = "download_youtube_voice"
    /\ video_id' = get_video_id(url)
    /\ dpc' = IF video_id'.kind = "ValueError" THEN "crashed"
              ELSE IF NoVideoId(video_id') THEN "done"
              ELSE "download_audio"
    /\ UNCHANGED <<whVars, crawlerVars, mode, url, playlist, limit, index,
                   successful_downloads, calls, failures, skipped>>

\* download_youtube_voice(url): audio_file = download_audio(video_id, output_dir)
DownloadVideo ==
    /\ dpc = "download_audio"
    /\ calls' = calls \cup {0}
    /\ \E ok \in BOOLEAN :
        failures' = IF ok THEN failures ELSE failures \cup {0}
    /\ dpc' = "done"
    /\ UNCHANGED <<whVars, crawlerVars, mode, url, playlist, limit, index, video_id,
                   successful_downloads, skipped>>

\* the loop head of download_playlist
VisitPc(i) == IF i <= Len(playlist) THEN "visit" ELSE "done"

\* download_playlist: Playlist(playlist_url), its title, its directory
OpenPlaylist ==
    /\ dpc = "download_playlist"
    /\ \E ok \in BOOLEAN :
        \* a failure is caught by the function's except
        dpc' = IF ok THEN VisitPc(1) ELSE "failed"
    /\ UNCHANGED <<whVars, crawlerVars, mode, url, playlist, limit, index, video_id,
                   successful_downloads, calls, failures, skipped>>

\* download_playlist: the top of one iteration, up to the limit test
VisitEntry ==
    /\ dpc = "visit"
    /\ video_id' = get_video_id(playlist[index])
    /\ IF video_id'.kind = "ValueError"
       THEN \* caught by the function's except
            /\ dpc' = "failed"
            /\ UNCHANGED <<index, skipped>>
       ELSE IF NoVideoId(video_id')
       THEN \* continue
            /\ skipped' = skipped \cup {index}
            /\ index' = index + 1
            /\ dpc' = VisitPc(index + 1)
       ELSE IF LimitReached(limit, successful_downloads)
       THEN \* break
            /\ dpc' = "done"
            /\ UNCHANGED <<index, skipped>>
       ELSE /\ dpc' = "download_entry"
            /\ UNCHANGED <<index, skipped>>
    /\ UNCHANGED <<whVars, crawlerVars, mode, url, playlist, limit,
                   successful_downloads, calls, failures>>

\* every download is counted, whatever download_audio returned
CountsEveryDownload(returnedFile) == TRUE

\* download_playlist: if audio_file, for what download_audio returned
\* (a file path, or None)
CountsAsSuccess(returnedFile) == returnedFile

\* download_playlist: download_audio(video_id, playlist_dir) and the count
DownloadEntry ==
    /\ dpc = "download_entry"
    /\ calls' = calls \cup {index}
    /\ \E ok \in BOOLEAN :
        /\ failures' = IF ok THEN failures ELSE failures \cup {index}
        /\ successful_downloads' = IF CountsAsSuccess(ok)
                                   THEN successful_downloads + 1
                                   ELSE successful_downloads
    /\ index' = index + 1
    /\ dpc' = VisitPc(index + 1)
    /\ UNCHANGED <<whVars, crawlerVars, mode, url, playlist, limit, video_id, skipped>>

NextDownload ==
    \/ ParseVideoUrl
    \/ DownloadVideo
    \/ OpenPlaylist
    \/ VisitEntry
    \/ DownloadEntry

SpecDownload == InitDownload /\ [][NextDownload]_vars

(***************************************************************************)
(* test_whisper_large.py: the command line.                                *)
(*                                                                         *)
(* A command line is the sequence of its tokens after the script path.     *)
(* The positional argument is any text: argparse takes the token after a   *)
(* "--" separator as the positional even when it starts with dashes, so    *)
(* args.input can hold the text of an option.                              *)
(***************************************************************************)
\* the values of args.input tried: none, a path to an audio file, an
\* 11-character video identifier, and the text of an option
Inputs == {"", "voices/a.mp3", "dQw4w9WgXcQ", "--background"}

\* the file the path input names
PathFile == 1

\* logs/whisper_transcribe_<timestamp>.log
LogFile == "logs/whisper_transcribe.log"

\* parser.parse_args(argv), continued from the values found so far
RECURSIVE ParseFrom(_, _)
ParseFrom(argv, a) ==
    IF argv = <<>> THEN a
    ELSE LET t == Head(argv) IN
         CASE t = "--all" -> ParseFrom(Tail(argv), [a EXCEPT !.all = TRUE])
           [] t = "--keep" -> ParseFrom(Tail(argv), [a EXCEPT !.keep = TRUE])
           [] t = "--background" ->
                ParseFrom(Tail(argv), [a EXCEPT !.background = TRUE])
           [] t = "--log" /\ Len(argv) >= 2 ->
                ParseFrom(Tail(Tail(argv)), [a EXCEPT !.log = argv[2]])
           [] OTHER -> ParseFrom(Tail(argv), [a EXCEPT !.input = t])

\* args = parser.parse_args() of a process started with the tokens argv
parse_args(argv) == ParseFrom(argv, NoArgs)

\* run_in_background: the command after [sys.executable, __file__]
BuildCmd(a) ==
    (IF a.input # "" THEN <<a.input>> ELSE <<>>)
    \o (IF a.all THEN <<"--all">> ELSE <<>>)
    \o (IF a.keep THEN <<"--keep">> ELSE <<>>)
    \o <<"--log", LogFile>>

\* main: os.path.exists(args.input)
InputExists(input, fs) == input = "voices/a.mp3" /\ PathFile \in fs

\* main: len(args.input) == 11 and every character is of the id alphabet
IsVideoId(input) == input = "dQw4w9WgXcQ"

\* the files of a set, in the order the directory listing gives them
RECURSIVE Listing(_)
Listing(S) ==
    IF S = {} THEN <<>>
    ELSE LET m == CHOOSE x \in S : \A y \in S : x <= y IN
         <<m>> \o Listing(S \ {m})

(***************************************************************************)
(* test_whisper_large.py: main, step by step.                              *)
(***************************************************************************)
\* test_whisper_large.py is started from a shell
WhisperStart ==
    /\ args \in [input : Inputs, all : BOOLEAN, keep : BOOLEAN,
                  background : BOOLEAN, log : {"", LogFile}]
    /\ wpc = "main"
    /\ files \in SUBSET Files
    /\ WhisperFresh

InitWhisper == CrawlerIdle /\ DownloaderIdle /\ WhisperStart

\* main: if args.background: run_in_background(args); return.  The child
\* process then parses the command and enters its own main.
RunInBackground ==
    /\ wpc = "main"
    /\ args.background
    /\ cmds' = Append(cmds, BuildCmd(args))
    /\ \E ok \in BOOLEAN :
        IF ok
        THEN /\ level' = level + 1
             /\ args' = parse_args(BuildCmd(args))
             /\ wpc' = "main"
        ELSE \* os.makedirs or subprocess.Popen raised
             /\ wpc' = "crashed"
             /\ UNCHANGED <<level, args>>
    /\ UNCHANGED <<crawlerVars, dlVars, loaded, worked, files, audio_files,
                   fileIndex, successful, outcome, wtranscripts, removeFailed,
                   summary>>

\* main: setup_logging, the GPU report, whisper.load_model("large-v3")
LoadWhisperModel ==
    /\ wpc = "main"
    /\ ~args.background
    /\ loaded' = loaded \cup {level}
    /\ \E ok \in BOOLEAN :
        wpc' = IF ok THEN "dispatch" ELSE "crashed"
    /\ UNCHANGED <<crawlerVars, dlVars, args, level, cmds, worked, files,
                   audio_files, fileIndex, successful, outcome, wtranscripts,
                   removeFailed, summary>>

\* main: if args.all: process_all_audio_files, up to its loop
ProcessAllAudioFiles ==
    /\ wpc = "dispatch"
    /\ args.all
    /\ IF files = {}
       THEN \* no directory or no audio file in it: return False
            /\ wpc' = "done"
            /\ UNCHANGED audio_files
       ELSE /\ audio_files' = Listing(files)
            /\ wpc' = "process_audio_file"
    /\ successful' = 0
    /\ UNCHANGED <<crawlerVars, dlVars, args, level, cmds, loaded, worked, files,
                   fileIndex, outcome, wtranscripts, removeFailed, summary>>

\* main: elif args.input: a path, a video identifier, or neither
ProcessInput ==
    /\ wpc = "dispatch"
    /\ ~args.all
    /\ args.input # ""
    /\ IF InputExists(args.input, files)
       THEN /\ audio_files' = <<PathFile>>
            /\ wpc' = "process_audio_file"
       ELSE IF IsVideoId(args.input) /\ files # {}
       THEN \* glob.glob of voices/<id>
            /\ audio_files' = Listing(files)
            /\ wpc' = "process_audio_file"
       ELSE \* no such directory, no file in it, or an invalid argument
            /\ wpc' = "done"
            /\ UNCHANGED audio_files
    /\ UNCHANGED <<crawlerVars, dlVars, args, level, cmds, loaded, worked, files,
                   fileIndex, successful, outcome, wtranscripts, removeFailed,
                   summary>>

\* main: else: the usage text
Usage ==
    /\ wpc = "dispatch"
    /\ ~args.all
    /\ args.input = ""
    /\ wpc' = "done"
    /\ UNCHANGED <<crawlerVars, dlVars, args, level, cmds, loaded, worked, files,
                   audio_files, fileIndex, successful, outcome, wtranscripts,
                   removeFailed, summary>>

\* process_all_audio_files: if process_audio_file(...), for what it returned
CountsAsSuccessful(returned) == returned

\* process_audio_file has returned: the counter and the next file
FileDone(returned) ==
    /\ successful' = IF args.all /\ CountsAsSuccessful(returned)
                     THEN successful + 1 ELSE successful
    /\ fileIndex' = fileIndex + 1
    /\ wpc' = IF fileIndex + 1 <= Len(audio_files) THEN "process_audio_file"
              ELSE IF args.all THEN "summary"
              ELSE "done"

\* one call process_audio_file(model, audio_file, not args.keep) and what
\* its caller does with the result
ProcessAudioFile ==
    /\ wpc = "process_audio_file"
    /\ worked' = worked \cup {level}
    /\ LET f == audio_files[fileIndex] IN
        \E present \in BOOLEAN, transcribed \in BOOLEAN, removedOk \in BOOLEAN :
            CASE ~present ->
                   \* the file is gone since it was listed: return False
                   /\ files' = files \ {f}
                   /\ outcome' = [outcome EXCEPT ![f] = "False"]
                   /\ FileDone(FALSE)
                   /\ UNCHANGED <<wtranscripts, removeFailed>>
              [] present /\ ~transcribed ->
                   \* model.transcribe raised: nothing catches it
                   /\ outcome' = [outcome EXCEPT ![f] = "raise"]
                   /\ wpc' = "crashed"
                   /\ UNCHANGED <<files, wtranscripts, removeFailed, successful,
                                  fileIndex>>
              [] OTHER ->
                   /\ wtranscripts' = wtranscripts \cup {f}
                   /\ IF args.keep
                      THEN /\ outcome' = [outcome EXCEPT ![f] = "True"]
                           /\ FileDone(TRUE)
                           /\ UNCHANGED <<files, removeFailed>>
                      ELSE IF removedOk
                      THEN /\ files' = files \ {f}
                           /\ outcome' = [outcome EXCEPT ![f] = "True"]
                           /\ FileDone(TRUE)
                           /\ UNCHANGED removeFailed
                      ELSE /\ removeFailed' = removeFailed \cup {f}
                           /\ UNCHANGED files
                           /\ IF CatchesRemoveFailure("test_whisper_large")
                              THEN /\ outcome' = [outcome EXCEPT ![f] = "True"]
                                   /\ FileDone(TRUE)
                              ELSE /\ outcome' = [outcome EXCEPT ![f] = "raise"]
                                   /\ wpc' = "crashed"
                                   /\ UNCHANGED <<successful, fileIndex>>
    /\ UNCHANGED <<crawlerVars, dlVars, args, level, cmds, loaded, audio_files,
                   summary>>

\* process_all_audio_files: the closing log lines, return True
LogSummary ==
    /\ wpc = "summary"
    /\ summary' = [logged |-> TRUE, successful |-> successful,
                   total |-> Len(audio_files)]
    /\ wpc' = "done"
    /\ UNCHANGED <<crawlerVars, dlVars, args, level, cmds, loaded, worked, files,
                   audio_files, fileIndex, successful, outcome, wtranscripts,
                   removeFailed>>

NextWhisper ==
    \/ RunInBackground
    \/ LoadWhisperModel
    \/ ProcessAllAudioFiles
    \/ ProcessInput
    \/ Usage
    \/ ProcessAudioFile
    \/ LogSummary

SpecWhisper == InitWhisper /\ [][NextWhisper]_vars

(***************************************************************************)
(* The scripts that delete the audio they have transcribed: one run of a   *)
(* channel crawler or one run of test_whisper_large.py.                    *)
(***************************************************************************)
InitBatch == Init \/ InitWhisper

NextBatch == Next \/ NextWhisper

SpecBatch == InitBatch /\ [][NextBatch]_vars

(***************************************************************************)
(* Properties of the channel crawlers.                                     *)
(***************************************************************************)
\* C1: a re-run over the files a completed first run left invokes neither
\* the downloader nor a transcription backend for an item whose transcript
\* files already exist.
C1_IdempotentRerun ==
    run = 2 =>
        \A i \in seeded :
            /\ i \notin dlCalled
            /\ i \notin whisperCalled
            /\ i \notin openaiCalled

\* C2: when the acquisition of item k has failed, the failure does not end
\* the batch loop, and once main has ended every later item was attempted.
C2_AcquisitionFailureIsolated ==
    \A k \in 1..Len(video_ids) :
        video_ids[k] \in acqFailed =>
            /\ ~(pc = "crashed" /\ crashStage = "extract_audio")
            /\ pc = "done" =>
                  \A j \in (k + 1)..Len(video_ids) : video_ids[j] \in attempted

\* C3: an item's audio file is removed only if every transcription backend
\* returned a transcript path for it.
C3_DeletionGated ==
    \A i \in removed : wres[i] = "path" /\ ores[i] = "path"

\* C4: transcribe_with_openai, given a file above 25 MiB, returns None and
\* never calls the remote API; given a file of at most 25 MiB, it calls the
\* remote API exactly once.
C4_SizeLimitEnforced ==
    \A i \in Ids :
        (i \in openaiCalled /\ osize[i] # Absent) =>
            IF osize[i] > 25 * 1024 * 1024
            THEN ores[i] = "None" /\ apiCalls[i] = 0
            ELSE apiCalls[i] = 1

\* C6: an error of a transcription backend never ends the batch loop, and
\* the other backend is still invoked for the same item.
C6_TranscriptionFailureIsolated ==
    /\ ~(pc = "crashed"
         /\ crashStage \in {"transcribe_with_whisper", "transcribe_with_openai"})
    /\ \A k \in 1..Len(video_ids) :
          (wres[video_ids[k]] \in {"None", "raise"}
             /\ ~(pc = "transcribe_with_openai" /\ idx = k))
          => video_ids[k] \in openaiCalled

\* C7: when a listing call has failed after earlier pages were read,
\* get_all_video_ids returns, without raising, the identifiers of those
\* pages, in the order they were discovered.
C7_EnumerationKeepsDiscovered ==
    (listFailed /\ collected # <<>>) =>
        /\ crashStage # "get_all_video_ids"
        /\ video_ids = collected

\* C8: with a credential missing from the environment the run makes no
\* channel lookup, no listing call, no acquisition and no transcription.
C8_ConfigurationFailFast ==
    ~(youtubeKey /\ openaiKey) =>
        /\ channelLookups = 0
        /\ listCalls = 0
        /\ dlCalled = {}
        /\ whisperCalled = {}
        /\ openaiCalled = {}

\* C12, one step of extract_audio for the current item: the downloader is
\* invoked only when <id>.mp3 is absent at the call; when it exists, the
\* call returns the path (main goes on to transcribe the item) with no
\* downloader call and the audio and transcript files as they were.
C12_SkipStep ==
    pc = "extract_audio" =>
        LET id == video_ids[idx] IN
        /\ id \in dlCalled' \ dlCalled => audio[id] = Absent
        /\ audio[id] # Absent =>
              /\ dlCalled' = dlCalled
              /\ acqFailed' = acqFailed
              /\ audio' = audio
              /\ transcripts' = transcripts
              /\ pc' = "transcribe_with_whisper"
              /\ idx' = idx

\* C12: extract_audio invokes the downloader for an identifier only if
\* <OUTPUT_DIR>/<identifier>.mp3 does not exist at call time; if it exists,
\* it returns that path with no downloader call and leaves the filesystem
\* unchanged.
C12_AcquisitionSkip == [][C12_SkipStep]_vars

\* C12 witness: a re-run found the audio file of an item in place and went
\* on to transcribe it without a download
C12_Witness ==
    /\ run = 2
    /\ pc = "transcribe_with_whisper"
    /\ video_ids[idx] \in attempted
    /\ video_ids[idx] \notin dlCalled
    /\ audio[video_ids[idx]] # Absent

\* the items are taken in list order, one at a time: every item before the
\* current one was acquired, no step of a later item has started, and a
\* backend is invoked only for an item extract_audio was called for
C13_InListOrder ==
    /\ \A k \in 1..Len(video_ids) :
          /\ k < idx => video_ids[k] \in attempted
          /\ k > idx => video_ids[k] \notin (attempted \cup whisperCalled \cup openaiCalled)
    /\ openaiCalled \subseteq whisperCalled
    /\ whisperCalled \subseteq attempted

\* the acquisition of item i failed: the downloader raised, or it returned
\* and there is no audio file that it left (none now, none removed since)
C13_AcquisitionFailed(i) ==
    i \in acqFailed \/ (audio[i] = Absent /\ i \notin removed)

\* C13: items are processed strictly in list order, one at a time; for each
\* item the acquisition completes before any transcription backend is
\* invoked for it, no backend is ever invoked for an item whose acquisition
\* failed (no path returned, or no audio file left), and no step of item
\* i+1 starts before all steps of item i have finished.
C13_StepOrdering ==
    /\ C13_InListOrder
    /\ \A i \in whisperCalled \cup openaiCalled : ~C13_AcquisitionFailed(i)

(***************************************************************************)
(* Properties of down_load_ytvoice.py.                                     *)
(***************************************************************************)
\* the first non-blank value of query parameter v, if there is one
FirstV(q) ==
    LET S == {k \in 1..Len(q) : q[k][1] = "v" /\ q[k][2] # <<>>} IN
    IF S = {} THEN None
    ELSE Str(q[CHOOSE k \in S : \A j \in S : k <= j][2])

\* the path segment after the first two: the text after the third token up
\* to the next "/"
RECURSIVE UpToSlash(_)
UpToSlash(p) ==
    IF p = <<>> \/ Head(p) = "/" THEN <<>> ELSE <<Head(p)>> \o UpToSlash(Tail(p))

ThirdSegment(p) == UpToSlash(SubSeq(p, 4, Len(p)))

\* what the claim says get_video_id returns for a URL
ExpectedVideoId(u) ==
    LET host == hostname(u.netloc) IN
    CASE host = "youtu.be" ->
           Str(SubSeq(u.path, 2, Len(u.path)))
      [] host \in {"www.youtube.com", "youtube.com"} /\ u.path = <<"/", "watch">> ->
           FirstV(u.query)
      [] host \in {"www.youtube.com", "youtube.com"} /\ Len(u.path) >= 3
           /\ u.path[1] = "/" /\ u.path[2] \in {"embed", "v"} /\ u.path[3] = "/" ->
           Str(ThirdSegment(u.path))
      [] OTHER -> None

\* C5: get_video_id returns the identifier of each recognised URL shape,
\* None for every other URL, and raises for no URL.
C5_IdentifierExtraction ==
    (mode = "video" /\ dpc # "download_youtube_voice") =>
        /\ video_id.kind # "ValueError"
        /\ video_id = ExpectedVideoId(url)

\* the entries download_audio returned a file for
Succeeded == calls \ failures

\* get_video_id finds an identifier in the URL
HasIdentifier(u) ==
    get_video_id(u).kind = "str" /\ get_video_id(u).val # <<>>

\* C9 as claimed: with limit > 0 download_audio is invoked for at most limit
\* entries of the playlist; with limit = 0 it is invoked for every entry
\* with a parseable identifier.
C9_AttemptsCapped ==
    mode = "playlist" =>
        /\ limit > 0 => Cardinality(calls) <= limit
        /\ (limit = 0 /\ dpc = "done") =>
              \A i \in 1..Len(playlist) : HasIdentifier(playlist[i]) => i \in calls

\* C9 as amended: with limit > 0 the entries successfully downloaded never
\* number more than limit (failed downloads do not count, so download_audio
\* may be invoked more often); with limit = 0 every entry with a parseable
\* identifier is processed once the playlist has been opened.
C9_SuccessesCapped ==
    mode = "playlist" =>
        /\ limit > 0 =>
              /\ successful_downloads <= limit
              /\ Cardinality(Succeeded) <= limit
              /\ Cardinality(calls) <= limit + Cardinality(failures)
        /\ (limit = 0 /\ dpc = "done") =>
              \A i \in 1..Len(playlist) : HasIdentifier(playlist[i]) => i \in calls

\* C9 witness: a run with a limit that made more download attempts than the
\* limit and stopped at the limit
C9_Witness ==
    /\ mode = "playlist"
    /\ limit > 0
    /\ dpc = "done"
    /\ Cardinality(calls) > limit
    /\ successful_downloads = limit

\* get_video_id yields no identifier for the URL: None or an empty string
YieldsNoIdentifier(u) ==
    get_video_id(u).kind = "None"
    \/ (get_video_id(u).kind = "str" /\ get_video_id(u).val = <<>>)

\* C10, the state part: download_youtube_voice given a URL without an
\* identifier returns without calling download_audio; download_playlist
\* never calls download_audio for such an entry and is not ended by it.
C10_SkipState ==
    /\ (mode = "video" /\ dpc # "download_youtube_voice" /\ YieldsNoIdentifier(url))
          => dpc = "done" /\ calls = {}
    /\ mode = "playlist" =>
          \A i \in 1..Len(playlist) :
              (i < index /\ YieldsNoIdentifier(playlist[i]))
                  => i \notin calls /\ i \in skipped /\ dpc # "failed"

\* C10, the step part: visiting an entry without an identifier moves on to
\* the next entry and leaves the success counter and the downloads alone.
C10_SkipStep ==
    (dpc = "visit" /\ YieldsNoIdentifier(playlist[index])) =>
        /\ index' = index + 1
        /\ dpc' = (IF index' <= Len(playlist) THEN "visit" ELSE "done")
        /\ successful_downloads' = successful_downloads
        /\ calls' = calls

\* C10: a URL get_video_id finds no identifier in is skipped without a
\* download and without an exception, by download_youtube_voice and by
\* download_playlist, which goes on with the next entry.
C10_UnrecognizedUrlSkipped == []C10_SkipState /\ [][C10_SkipStep]_vars

\* C10 witness: a playlist run skipped an entry without an identifier and
\* downloaded a later entry
C10_Witness ==
    /\ mode = "playlist"
    /\ \E i \in skipped : \E j \in calls :
          i < j /\ YieldsNoIdentifier(playlist[i])

\* C15, the state part: in download_playlist the counter never exceeds a
\* positive limit, never exceeds the number of entries visited so far, which
\* never exceeds the number of entries, and equals the number of entries
\* download_audio returned a file for.
C15_CountState ==
    mode = "playlist" =>
        /\ limit > 0 => successful_downloads <= limit
        /\ successful_downloads <= index - 1
        /\ index - 1 <= Len(playlist)
        /\ successful_downloads = Cardinality(Succeeded)

\* C15, the step part: the counter changes only by one, in the step that
\* calls download_audio for the current entry, and only when that call
\* returned a file.
C15_CountStep ==
    successful_downloads' # successful_downloads =>
        /\ dpc = "download_entry"
        /\ successful_downloads' = successful_downloads + 1
        /\ index \in calls'
        /\ index \notin failures'

\* C15: at every point of download_playlist with limit > 0,
\* successful_downloads <= limit; at every point successful_downloads <=
\* entries visited so far <= playlist entries; successful_downloads is
\* incremented only when download_audio returned a file path.
C15_SuccessCountBound == []C15_CountState /\ [][C15_CountStep]_vars

\* C15 witness: the loop is at an entry with the counter at the limit,
\* after a failed download left the counter below the entries visited
C15_Witness ==
    /\ mode = "playlist"
    /\ dpc = "visit"
    /\ limit > 0
    /\ successful_downloads = limit
    /\ failures # {}
    /\ successful_downloads < index - 1

(***************************************************************************)
(* Properties of the batch runs and of test_whisper_large.py.              *)
(***************************************************************************)
\* the files process_audio_file returned True for
ReturnedTrue == {f \in Files : outcome[f] = "True"}

\* C11: when a batch run ends, every item of the input list has exactly one
\* outcome among skipped, succeeded and failed, so that the counts sum to
\* the number of items, and the success count reported in the closing line
\* equals the number of items whose processing returned success; for
\* process_all_audio_files (a file is succeeded when process_audio_file
\* returned True, failed when it returned False) and for download_playlist.
C11_RunSummary ==
    /\ (args.all /\ audio_files # <<>> /\ wpc \in {"done", "crashed"}) =>
          /\ \A k \in 1..Len(audio_files) :
                outcome[audio_files[k]] \in {"True", "False"}
          /\ summary.logged
          /\ summary.total = Len(audio_files)
          /\ summary.successful = Cardinality(ReturnedTrue)
    /\ (mode = "playlist" /\ dpc = "done") =>
          /\ \A i \in 1..Len(playlist) :
                \/ i \in skipped /\ i \notin calls
                \/ i \in Succeeded /\ i \notin skipped
                \/ i \in failures /\ i \in calls /\ i \notin skipped
          /\ successful_downloads = Cardinality(Succeeded)

\* C14, one deletion that fails: process_audio_file still returns True with
\* the transcript written, its caller counts the file and goes on to the
\* next one; deepseek's main goes on to the pause before the next item with
\* the transcripts as they were.
C14_FailedDeletionStep ==
    /\ (wpc = "process_audio_file" /\ removeFailed' # removeFailed) =>
          LET f == audio_files[fileIndex] IN
          /\ outcome'[f] = "True"
          /\ f \in wtranscripts'
          /\ args.all => successful' = successful + 1
          /\ fileIndex' = fileIndex + 1
          /\ wpc' = (IF fileIndex' <= Len(audio_files) THEN "process_audio_file"
                     ELSE IF args.all THEN "summary" ELSE "done")
    /\ (pc = "cleanup" /\ pc' # pc /\ removed' = removed) =>
          /\ pc' = "sleep"
          /\ idx' = idx
          /\ transcripts' = transcripts
          /\ crashStage' = crashStage

\* C14, the state part: no run is ended by a failed deletion, and a file
\* whose deletion failed keeps its transcript and counts as succeeded.
C14_FailedDeletionState ==
    /\ crashStage # "cleanup"
    /\ \A f \in removeFailed :
          outcome[f] = "True" /\ f \in wtranscripts /\ f \in files

\* C14: when removing the source audio after a successful transcription
\* fails, the item is still reported as succeeded (process_audio_file
\* returns True; the deepseek loop continues), the transcript already
\* written is kept, and the batch proceeds to the next item.
C14_DeletionFailureNonFatal ==
    []C14_FailedDeletionState /\ [][C14_FailedDeletionStep]_vars

\* C14 witness: a --all run whose first deletion failed has processed every
\* file and logged them all as successful
C14_Witness ==
    /\ summary.logged
    /\ summary.total >= 2
    /\ summary.successful = summary.total
    /\ audio_files[1] \in removeFailed
    /\ audio_files[1] \in wtranscripts

\* the tokens of a command
Tokens(cmd) == {cmd[k] : k \in 1..Len(cmd)}

\* C16: the command built by run_in_background never contains --background
\* and always contains --log; the parent starts exactly one child and
\* neither loads a model nor processes an item; the child runs the
\* synchronous path and never spawns a further process.
C16_OneLevel ==
    /\ \A k \in 1..Len(cmds) :
          "--background" \notin Tokens(cmds[k]) /\ "--log" \in Tokens(cmds[k])
    /\ Len(cmds) <= 1
    /\ level <= 1
    /\ level >= 1 => ~args.background
    /\ cmds # <<>> => 0 \notin (loaded \cup worked)

====
